---- MODULE Spec2Model ----
(***************************************************************************)
(* Model of tools/process_font.py: the command-line driver that loads a    *)
(* font, removes overlaps and saves it.  One action per statement of       *)
(* main(); the three fontTools calls (TTFont, removeOverlaps, font.save)   *)
(* are external, so each is a nondeterministic choice between returning    *)
(* and raising an Exception with some message; save may raise before or    *)
(* after it has written part of the file.  The file system outlives a      *)
(* process, so the model lets the program be invoked again and again on    *)
(* the same file system.                                                   *)
(***************************************************************************)
EXTENDS Integers, Sequences, FiniteSets, TLC

\* ---- bounds ----
MaxArgs == 3      \* positional arguments given to one invocation: 0..MaxArgs
NumPaths == 2     \* distinct file-system paths
NumMsgs == 2      \* distinct exception messages the library may raise with

\* ---- inputs ----
Prog == "process_font.py"
PathName(i) == "font" \o ToString(i) \o ".ttf"
Paths == {PathName(i) : i \in 1..NumPaths}
MsgText(i) == "failure " \o ToString(i)
Msgs == {MsgText(i) : i \in 1..NumMsgs}
\* sys.argv: the program name followed by 0..MaxArgs positional arguments, the
\* first two of them paths and every further one the same surplus word
Surplus == "--verbose"
ArgList(n) ==
    IF n <= 2 THEN [1..n -> Paths]
    ELSE {a \o [i \in 1..(n - 2) |-> Surplus] : a \in [1..2 -> Paths]}
ArgvSet == {<<Prog>> \o a : a \in UNION {ArgList(n) : n \in 0..MaxArgs}}

\* ---- contents of a path ----
\* "absent": no file; "original": a font nobody processed; "processed": the
\* complete output of a successful save; "partial": what a save that raised
\* midway left behind.
Contents == {"absent", "original", "processed", "partial"}

VARIABLES
    argv,       \* sys.argv of the running process
    pc,         \* the statement of main() to execute next
    font,       \* the local `font`: "none", "loaded", "flattened"
    exc,        \* the message of the exception bound to `e`, "" if none
    console,    \* lines printed to standard output by this process
    exitCode,   \* NoExit while running, then the process exit code
    fs,         \* file system: contents of every path
    events,     \* history: prints and library calls of this process, in order
    outcomes,   \* history: what each library call of this process did
    fsAtStart,  \* history: fs when this process started
    prev        \* history: <<>> or <<record of the previous process>>

vars == <<argv, pc, font, exc, console, exitCode, fs, events, outcomes,
          fsAtStart, prev>>

NoExit == -1
SuccessExit == 0
FailureExit == 1

\* ---- pure parts of main() ----
ArgcOkLoose(a) == Len(a) >= 3
ArgcOk(a) == Len(a) = 3

InputPath(a) == a[2]
OutputPathSwapped(a) == a[2]
OutputPath(a) == a[3]

UsageLine == "Usage: python process_font.py <input_ttf> <output_ttf>"
LoadingLineCached(path) ==
    IF fs[path] = "processed" THEN "-- Loading cached font: " \o path
    ELSE "-- Loading font: " \o path
LoadingLine(path) == "-- Loading font: " \o path
RemovingLine == "-- Removing overlaps (this may take a moment)..."
SavingLine(path) == "-- Saving to: " \o path
DoneLine == "-- Done."
ErrorLineNoMessage(m) == "Error processing font"
ErrorLine(m) == "Error processing font: " \o m

ErrorExitZero == SuccessExit
ErrorExit == FailureExit
UsageExit == FailureExit

\* The statement that follows statement l when l completes normally.
SuccBase(l) ==
    CASE l = "print_usage"    -> "exit_usage"
      [] l = "print_loading"  -> "load"
      [] l = "load"           -> "print_removing"
      [] l = "print_removing" -> "remove"
      [] l = "remove"         -> "print_saving"
      [] l = "print_saving"   -> "save"
      [] l = "save"           -> "print_done"
      [] l = "print_done"     -> "return"
      [] l = "print_error"    -> "exit_error"
      [] OTHER                -> "exited"
\* the status line of save printed after the call instead of before it
SuccSaveFirst(l) ==
    CASE l = "remove"       -> "save"
      [] l = "save"         -> "print_saving"
      [] l = "print_saving" -> "print_done"
      [] OTHER              -> SuccBase(l)
\* removeOverlaps(font) left out
SuccSkipRemove(l) == IF l = "print_removing" THEN "print_saving" ELSE SuccBase(l)
\* the handler prints the error but does not call sys.exit(1)
SuccNoExit(l) == IF l = "print_error" THEN "return" ELSE SuccBase(l)
Succ(l) == SuccBase(l)

\* try/except: where control goes after a library call at statement l.
OnOutcomeSwallow(o, l) == Succ(l)
OnOutcomeRetry(o, l) == IF o.kind = "raise" THEN l ELSE Succ(l)
OnOutcome(o, l) == IF o.kind = "raise" THEN "print_error" ELSE Succ(l)

\* ---- what a library call may do ----
Returns(op, w) == [op |-> op, kind |-> "return", msg |-> "", wrote |-> w]
Raises(op, m, w) == [op |-> op, kind |-> "raise", msg |-> m, wrote |-> w]
\* TTFont(path) opens the file: it cannot return when there is no file, and
\* it may raise on any file (malformed, unreadable).
LoadOutcomes(path) ==
    (IF fs[path] = "absent" THEN {} ELSE {Returns("load", "nothing")})
        \cup {Raises("load", m, "nothing") : m \in Msgs}
RemoveOutcomes == {Returns("remove", "nothing")}
                    \cup {Raises("remove", m, "nothing") : m \in Msgs}
SaveOutcomes == {Returns("save", "full")}
                    \cup {Raises("save", m, w) : m \in Msgs, w \in {"nothing", "partial"}}

\* contents of the written path after a save with outcome o
Written(o, old) ==
    CASE o.wrote = "full"    -> "processed"
      [] o.wrote = "partial" -> "partial"
      [] OTHER               -> old

RunRecord == [argv |-> argv, outcomes |-> outcomes, console |-> console,
              events |-> events, exitCode |-> exitCode]

\* ---- initial state: a process has just been started ----
Init ==
    /\ argv \in ArgvSet
    /\ pc = "argc"
    /\ font = "none"
    /\ exc = ""
    /\ console = <<>>
    /\ exitCode = NoExit
    /\ fs \in [Paths -> {"absent", "original"}]
    /\ events = <<>>
    /\ outcomes = <<>>
    /\ fsAtStart = fs
    /\ prev = <<>>

\* ---- statements of main() ----
\* if len(sys.argv) != 3:
CheckArgs ==
    /\ pc = "argc"
    /\ pc' = IF ArgcOk(argv) THEN "print_loading" ELSE "print_usage"
    /\ UNCHANGED <<argv, font, exc, console, exitCode, fs, events, outcomes,
                   fsAtStart, prev>>

\* print("Usage: ...")
PrintUsage ==
    /\ pc = "print_usage"
    /\ console' = Append(console, UsageLine)
    /\ events' = Append(events, "print_usage")
    /\ pc' = Succ(pc)
    /\ UNCHANGED <<argv, font, exc, exitCode, fs, outcomes, fsAtStart, prev>>

\* sys.exit(1)
ExitUsage ==
    /\ pc = "exit_usage"
    /\ exitCode' = UsageExit
    /\ pc' = "exited"
    /\ UNCHANGED <<argv, font, exc, console, fs, events, outcomes, fsAtStart, prev>>

\* print(f"-- Loading font: {input_path}")
PrintLoading ==
    /\ pc = "print_loading"
    /\ console' = Append(console, LoadingLine(InputPath(argv)))
    /\ events' = Append(events, "print_loading")
    /\ pc' = Succ(pc)
    /\ UNCHANGED <<argv, font, exc, exitCode, fs, outcomes, fsAtStart, prev>>

\* font = TTFont(input_path)
Load ==
    /\ pc = "load"
    /\ \E o \in LoadOutcomes(InputPath(argv)) :
        /\ outcomes' = Append(outcomes, o)
        /\ font' = IF o.kind = "return" THEN "loaded" ELSE font
        /\ exc' = o.msg
        /\ pc' = OnOutcome(o, pc)
    /\ events' = Append(events, "load")
    /\ UNCHANGED <<argv, console, exitCode, fs, fsAtStart, prev>>

\* print("-- Removing overlaps (this may take a moment)...")
PrintRemoving ==
    /\ pc = "print_removing"
    /\ console' = Append(console, RemovingLine)
    /\ events' = Append(events, "print_removing")
    /\ pc' = Succ(pc)
    /\ UNCHANGED <<argv, font, exc, exitCode, fs, outcomes, fsAtStart, prev>>

\* removeOverlaps(font)
RemoveOverlaps ==
    /\ pc = "remove"
    /\ \E o \in RemoveOutcomes :
        /\ outcomes' = Append(outcomes, o)
        /\ font' = IF o.kind = "return" THEN "flattened" ELSE font
        /\ exc' = o.msg
        /\ pc' = OnOutcome(o, pc)
    /\ events' = Append(events, "remove")
    /\ UNCHANGED <<argv, console, exitCode, fs, fsAtStart, prev>>

\* print(f"-- Saving to: {output_path}")
PrintSaving ==
    /\ pc = "print_saving"
    /\ console' = Append(console, SavingLine(OutputPath(argv)))
    /\ events' = Append(events, "print_saving")
    /\ pc' = Succ(pc)
    /\ UNCHANGED <<argv, font, exc, exitCode, fs, outcomes, fsAtStart, prev>>

\* font.save(output_path)
Save ==
    /\ pc = "save"
    /\ \E o \in SaveOutcomes :
        /\ outcomes' = Append(outcomes, o)
        /\ fs' = [fs EXCEPT ![OutputPath(argv)] = Written(o, @)]
        /\ exc' = o.msg
        /\ pc' = OnOutcome(o, pc)
    /\ events' = Append(events, "save")
    /\ UNCHANGED <<argv, font, console, exitCode, fsAtStart, prev>>

\* print("-- Done.")
PrintDone ==
    /\ pc = "print_done"
    /\ console' = Append(console, DoneLine)
    /\ events' = Append(events, "print_done")
    /\ pc' = Succ(pc)
    /\ UNCHANGED <<argv, font, exc, exitCode, fs, outcomes, fsAtStart, prev>>

\* main() returns and the interpreter exits with status 0
Return ==
    /\ pc = "return"
    /\ exitCode' = SuccessExit
    /\ pc' = "exited"
    /\ UNCHANGED <<argv, font, exc, console, fs, events, outcomes, fsAtStart, prev>>

\* except Exception as e: print(f"Error processing font: {e}")
PrintError ==
    /\ pc = "print_error"
    /\ console' = Append(console, ErrorLine(exc))
    /\ events' = Append(events, "print_error")
    /\ pc' = Succ(pc)
    /\ UNCHANGED <<argv, font, exc, exitCode, fs, outcomes, fsAtStart, prev>>

\* sys.exit(1) in the handler
ExitError ==
    /\ pc = "exit_error"
    /\ exitCode' = ErrorExit
    /\ pc' = "exited"
    /\ UNCHANGED <<argv, font, exc, console, fs, events, outcomes, fsAtStart, prev>>

\* The process has ended; the program is started again (a new process, a new
\* argument list) on the file system the earlier processes left.
Invoke ==
    /\ pc = "exited"
    /\ prev' = <<RunRecord>>
    /\ argv' \in ArgvSet
    /\ pc' = "argc"
    /\ font' = "none"
    /\ exc' = ""
    /\ console' = <<>>
    /\ exitCode' = NoExit
    /\ events' = <<>>
    /\ outcomes' = <<>>
    /\ fsAtStart' = fs
    /\ UNCHANGED fs

Step ==
    \/ CheckArgs
    \/ PrintUsage
    \/ ExitUsage
    \/ PrintLoading
    \/ Load
    \/ PrintRemoving
    \/ RemoveOverlaps
    \/ PrintSaving
    \/ Save
    \/ PrintDone
    \/ Return
    \/ PrintError
    \/ ExitError

Next ==
    \/ CheckArgs
    \/ PrintUsage
    \/ ExitUsage
    \/ PrintLoading
    \/ Load
    \/ PrintRemoving
    \/ RemoveOverlaps
    \/ PrintSaving
    \/ Save
    \/ PrintDone
    \/ Return
    \/ PrintError
    \/ ExitError
    \/ Invoke

Spec == Init /\ [][Next]_vars

\* One invocation on its own: every statement of the running process is
\* eventually executed, as the program is single-threaded and each library
\* call either returns or raises.
FairSpec == Init /\ [][Step]_vars /\ WF_vars(Step)

TypeOK ==
    /\ argv \in ArgvSet
    /\ font \in {"none", "loaded", "flattened"}
    /\ exitCode \in {NoExit, SuccessExit, FailureExit}
    /\ fs \in [Paths -> Contents]
    /\ Len(prev) <= 1

\* ---- vocabulary of the properties ----
Has(seq, x) == \E i \in 1..Len(seq) : seq[i] = x
Count(seq, x) == Cardinality({i \in 1..Len(seq) : seq[i] = x})
IsPrefix(s, t) == Len(s) <= Len(t) /\ \A i \in 1..Len(s) : s[i] = t[i]
Exited == pc = "exited"
TwoArgs == Len(argv) = 3
Raised == outcomes # <<>> /\ outcomes[Len(outcomes)].kind = "raise"
RaisedAt(op) == Raised /\ outcomes[Len(outcomes)].op = op
RaisedMsg == outcomes[Len(outcomes)].msg
AllReturned == Len(outcomes) = 3 /\ \A i \in 1..3 : outcomes[i].kind = "return"
LibraryCalled == Has(events, "load") \/ Has(events, "remove") \/ Has(events, "save")
\* the events of a run in which nothing raises
FullOrder == <<"print_loading", "load", "print_removing", "remove",
               "print_saving", "save", "print_done">>
\* the console lines of a run in which nothing raises
FullConsole == <<LoadingLine(argv[2]), RemovingLine, SavingLine(argv[3]), DoneLine>>
IsErrorLine(l) == \E m \in Msgs : l = "Error processing font: " \o m

\* C1: with a number of positional arguments other than two, the process
\* never calls load, removeOverlaps or save and never changes the file
\* system, prints nothing but the usage message, and ends with exit code 1.
C1_WrongArgCount ==
    ~TwoArgs =>
        /\ ~LibraryCalled
        /\ outcomes = <<>>
        /\ fs = fsAtStart
        /\ IsPrefix(console, <<UsageLine>>)
        /\ Exited => console = <<UsageLine>> /\ exitCode = 1
C1_Witness ==
    /\ Exited
    /\ Len(argv) = 4
    /\ console = <<UsageLine>>
    /\ exitCode = 1

\* C2: save has been invoked only if load and removeOverlaps both returned
\* before it; once load or removeOverlaps has raised, save is not invoked.
C2_SaveOnlyAfterSuccess ==
    /\ Has(events, "save") =>
          /\ Len(outcomes) >= 2
          /\ outcomes[1] = Returns("load", "nothing")
          /\ outcomes[2] = Returns("remove", "nothing")
          /\ font = "flattened"
    /\ (\E i \in 1..Len(outcomes) :
            outcomes[i].op \in {"load", "remove"} /\ outcomes[i].kind = "raise")
          => ~Has(events, "save") /\ fs = fsAtStart
C2_Witness ==
    /\ Exited
    /\ RaisedAt("remove")
    /\ ~Has(events, "save")
    /\ Has(events, "remove")

\* C3: with two arguments, when load, removeOverlaps or save raises with
\* message m, the process prints "Error processing font: m" as its last line
\* and ends with exit code 1, whichever of the three calls raised.
C3_ErrorReport ==
    (TwoArgs /\ Exited /\ Raised) =>
        /\ console[Len(console)] = "Error processing font: " \o RaisedMsg
        /\ Count(console, "Error processing font: " \o RaisedMsg) = 1
        /\ exitCode = 1
C3_Witness ==
    /\ Exited
    /\ RaisedAt("save")
    /\ console[Len(console)] = "Error processing font: " \o MsgText(NumMsgs)
    /\ exitCode = 1

\* C4: a process ends with exit code 0 exactly when it was given two
\* arguments and load, removeOverlaps and save all returned, and then the
\* save of the output path has completed; every other process ends with 1.
C4_ExitCode ==
    Exited =>
        /\ exitCode \in {0, 1}
        /\ exitCode = 0 <=> (TwoArgs /\ AllReturned)
        /\ exitCode = 0 =>
              /\ Has(events, "save")
              /\ outcomes[3] = Returns("save", "full")
              /\ fs[argv[3]] = "processed"
C4_Witness ==
    /\ Exited
    /\ exitCode = 0
    /\ fsAtStart[argv[3]] = "absent"
    /\ fs[argv[3]] = "processed"

\* C5: with two arguments, when load raises, removeOverlaps and save are not
\* invoked and the file system stays as it was when the process started; the
\* process prints the error line with load's message and ends with code 1.
C5_LoadFailure ==
    (TwoArgs /\ outcomes # <<>> /\ outcomes[1].kind = "raise") =>
        /\ Len(outcomes) = 1
        /\ ~Has(events, "remove")
        /\ ~Has(events, "save")
        /\ fs = fsAtStart
        /\ Exited =>
              /\ exitCode = 1
              /\ console = <<"-- Loading font: " \o argv[2],
                             "Error processing font: " \o outcomes[1].msg>>
C5_Witness ==
    /\ Exited
    /\ RaisedAt("load")
    /\ fsAtStart[argv[3]] = "absent"
    /\ fs[argv[3]] = "absent"
    /\ exitCode = 1

\* C6 as stated: when save raises the process ends with exit code 1 and an
\* error message, and no partial file stays at the output path where a later
\* run would read it.
C6_NoPartialLeft ==
    /\ (Exited /\ RaisedAt("save")) =>
          exitCode = 1 /\ IsErrorLine(console[Len(console)])
    /\ pc = "load" => fs[argv[2]] # "partial"

\* C6 amended: when save raises the process ends with exit code 1 and the
\* error message, and the driver cleans nothing up: every path holds what it
\* held when the process started, except the output path, which holds what
\* the failed save left there (a partial file if it had written part of it).
C6_NoCleanup ==
    (TwoArgs /\ Exited /\ RaisedAt("save")) =>
        /\ exitCode = 1
        /\ console[Len(console)] = "Error processing font: " \o RaisedMsg
        /\ \A p \in Paths : p # argv[3] => fs[p] = fsAtStart[p]
        /\ fs[argv[3]] = IF outcomes[3].wrote = "partial" THEN "partial"
                         ELSE fsAtStart[argv[3]]
C6_Witness ==
    /\ Exited
    /\ RaisedAt("save")
    /\ argv[2] # argv[3]
    /\ fsAtStart[argv[3]] = "original"
    /\ fs[argv[3]] = "partial"
    /\ exitCode = 1

\* C7: with two arguments the prints and calls of a process happen in the
\* order Loading line, load, Removing line, removeOverlaps, Saving line,
\* save, Done line: the events so far are a prefix of that order, followed
\* by the error line when the last call of the prefix raised; the console
\* holds the matching lines.
C7_Order ==
    TwoArgs =>
        /\ \/ IsPrefix(events, FullOrder)
           \/ /\ events # <<>>
              /\ events[Len(events)] = "print_error"
              /\ IsPrefix(SubSeq(events, 1, Len(events) - 1), FullOrder)
              /\ Len(events) >= 3
              /\ events[Len(events) - 1] \in {"load", "remove", "save"}
        /\ \/ IsPrefix(console, FullConsole)
           \/ /\ console # <<>>
              /\ IsErrorLine(console[Len(console)])
              /\ IsPrefix(SubSeq(console, 1, Len(console) - 1), FullConsole)
        /\ \A i \in 1..Len(events) :
              events[i] \in {"load", "remove", "save"} =>
                  i > 1 /\ events[i - 1] = "print_" \o
                      (CASE events[i] = "load" -> "loading"
                         [] events[i] = "remove" -> "removing"
                         [] OTHER -> "saving")
        /\ (Exited /\ exitCode = 0) => events = FullOrder /\ console = FullConsole
C7_Witness ==
    /\ Exited
    /\ events = <<"print_loading", "load", "print_removing", "remove",
                  "print_saving", "save", "print_error">>
    /\ console[3] = "-- Saving to: " \o argv[3]

\* C8: every process ends (a running process leads to an ended one, with
\* exit code 0 or 1), and within one process load, removeOverlaps and save
\* are each invoked at most once.
C8_AtMostOnce ==
    /\ Count(events, "load") <= 1
    /\ Count(events, "remove") <= 1
    /\ Count(events, "save") <= 1
    /\ Len(outcomes) <= 3
    /\ Raised => pc \in {"print_error", "exit_error", "exited"}
C8_Terminates ==
    /\ []C8_AtMostOnce
    /\ (pc # "exited") ~> (pc = "exited" /\ exitCode \in {0, 1})
C8_Witness ==
    /\ Exited
    /\ RaisedAt("remove")
    /\ Count(events, "load") = 1
    /\ Count(events, "remove") = 1
    /\ Count(events, "save") = 0

\* C9: the Done line is printed exactly by the processes that end with exit
\* code 0; no process prints the Done line together with the error line or
\* the usage message; a process that ends with exit code 1 has printed
\* exactly one line that is the usage message or an error line.
C9_Messages ==
    /\ Exited => (Has(console, DoneLine) <=> exitCode = 0)
    /\ ~(Has(console, DoneLine) /\
            \E i \in 1..Len(console) : console[i] = UsageLine \/ IsErrorLine(console[i]))
    /\ (Exited /\ exitCode = 1) =>
          Cardinality({i \in 1..Len(console) :
                          console[i] = UsageLine \/ IsErrorLine(console[i])}) = 1
C9_Witness ==
    /\ Exited
    /\ exitCode = 0
    /\ console[Len(console)] = DoneLine
    /\ prev # <<>>
    /\ prev[1].exitCode = 1

\* C10: two processes given the same argument list whose library calls had
\* the same outcomes print the same lines, make the same calls and end with
\* the same exit code, whatever the earlier process left behind.
C10_Deterministic ==
    (Exited /\ prev # <<>> /\ prev[1].argv = argv /\ prev[1].outcomes = outcomes) =>
        /\ prev[1].console = console
        /\ prev[1].events = events
        /\ prev[1].exitCode = exitCode
C10_Witness ==
    /\ Exited
    /\ prev # <<>>
    /\ prev[1].argv = argv
    /\ prev[1].outcomes = outcomes
    /\ Len(outcomes) = 3
    /\ fsAtStart[argv[3]] = "processed"
    /\ exitCode = 0
====
